---- MODULE Spec2Model ----
(***************************************************************************)
(* Business Intelligence Dashboard: the data loader/cleaner, the column    *)
(* classifier and the filter engine (data_processor.py, utils.py) and the  *)
(* session state of the dashboard (app.py).                                *)
(*                                                                         *)
(* A cell is a pair <<n, d>>: the rational n/d (d >= 1), or a non-number   *)
(* when d = 0.  A table (DataFrame) is a record of its columns (name and   *)
(* dtype) and its rows (index label and cells); an absent table (Python    *)
(* None) is NoneDF.  A column name is a sequence of text tokens.           *)
(***************************************************************************)
EXTENDS Integers, Sequences, FiniteSets, TLC

VARIABLES
    data,      \* filter calls: the table handed to the call
    call,      \* filter calls: the function called and its arguments
    result,    \* filter calls: the table the call returned
    file,      \* load calls: the file handle handed to load_clean_data
    loaded,    \* load calls: what load_clean_data returned
    file_input,             \* session: gr.File, the file of the last upload
    df_state,               \* session: gr.State, the table
    missing_values,         \* session: gr.State, the missing-value census
    current_filter,         \* session: gr.State, the active filter
    upload_status,          \* session: the "Upload Status" text
    filter_column_select,   \* session: the column dropdown, choices and value
    total_row_count,        \* session: the "Total Rows" text
    filtered_row_count,     \* session: the "Filtered Rows" text
    filtered_data_display,  \* session: the filtered data preview
    report     \* session: the outputs of the last describe, preview, statistics
               \* or insights request

filterVars == <<data, call, result>>
loadVars == <<file, loaded>>
sessionVars == <<file_input, df_state, missing_values, current_filter, upload_status,
                 filter_column_select, total_row_count, filtered_row_count,
                 filtered_data_display, report>>
vars == <<data, call, result, file, loaded, file_input, df_state, missing_values,
          current_filter, upload_status, filter_column_select, total_row_count,
          filtered_row_count, filtered_data_display, report>>

\* ------------------------------------------------------------------ bounds
MaxRows == 2
MaxVal == 2
MaxCols == 2
AnomalyRows == 5

\* ------------------------------------------------------------------ values
NaN == <<0, 0>>
None == <<1, 0>>
V(n) == <<n, 1>>

IsNull(c) == c[2] = 0

\* a <= b on cells; any comparison with a missing cell is False
Leq(a, b) == /\ a[2] > 0
             /\ b[2] > 0
             /\ a[1] * b[2] <= b[1] * a[2]

NoneDF == [present |-> FALSE, cols |-> <<>>, rows |-> <<>>]

Dtypes == {"int64", "float64", "bool", "object", "category",
           "datetime64[ns]", "datetime64[ns, UTC]", "timedelta64[ns]"}

ColAge == <<"age">>
ColCity == <<"city">>
ColDate == <<"signup_date">>
NoColumn == <<>>

Range(s) == {s[i] : i \in DOMAIN s}

Columns(df) == [i \in DOMAIN df.cols |-> df.cols[i].name]

HasCol(df, column) == \E i \in DOMAIN df.cols : df.cols[i].name = column

ColIndex(df, column) == CHOOSE i \in DOMAIN df.cols : df.cols[i].name = column

DtypeOf(df, column) == df.cols[ColIndex(df, column)].dtype

\* data[column]: the cells of a column, one per row
Col(df, column) == [i \in DOMAIN df.rows |-> df.rows[i].cells[ColIndex(df, column)]]

\* the rows whose mask entry is True, in their order
KeepWhere(rows, mask) ==
    LET marked == SelectSeq([i \in DOMAIN rows |-> [row |-> rows[i], keep |-> mask[i]]],
                            LAMBDA p : p.keep)
    IN  [i \in DOMAIN marked |-> marked[i].row]

\* data[column] >= x, data[column] <= x, data[column].isin(xs), m1 & m2: boolean masks
Ge(df, column, x) == [i \in DOMAIN df.rows |-> Leq(x, Col(df, column)[i])]
Le(df, column, x) == [i \in DOMAIN df.rows |-> Leq(Col(df, column)[i], x)]
Lt(df, column, x) == [i \in DOMAIN df.rows |-> Leq(Col(df, column)[i], x) /\ Col(df, column)[i] # x]
IsIn(df, column, xs) == [i \in DOMAIN df.rows |-> Col(df, column)[i] \in xs]
And(m1, m2) == [i \in DOMAIN m1 |-> m1[i] /\ m2[i]]

\* data[mask]: the rows whose entry in the boolean mask is True, order and index kept
Mask(df, mask) == [df EXCEPT !.rows = KeepWhere(@, mask)]

\* ------------------------------------------------------- dtype predicates
is_numeric_dtype(dt) == dt \in {"int64", "float64", "bool"}
is_categorical_dtype(dt) == dt = "category"
is_object_dtype(dt) == dt = "object"
is_datetime64_any_dtype(dt) == dt \in {"datetime64[ns]", "datetime64[ns, UTC]"}

IncludeNumber == {"int64", "float64", "timedelta64[ns]"}
IncludeObjectCategory == {"object", "category"}
IncludeDatetime == {"datetime64[ns]"}

\* data.select_dtypes(include=...).columns.tolist()
select_dtypes(df, include) ==
    LET keep(c) == c.dtype \in include
        sel == SelectSeq(df.cols, keep)
    IN [i \in DOMAIN sel |-> sel[i].name]

get_data_cols(df) ==
    IF df.present
    THEN [numeric_cols |-> select_dtypes(df, IncludeNumber),
          categorical_cols |-> select_dtypes(df, IncludeObjectCategory),
          datetime_cols |-> select_dtypes(df, IncludeDatetime)]
    ELSE [numeric_cols |-> <<>>, categorical_cols |-> <<>>, datetime_cols |-> <<>>]

\* ------------------------------------------------------- per-kind filters
\* numeric_filter with the upper end of the range exclusive
numeric_filter_exclusive(df, column, min, max) ==
    IF ~df.present \/ ~HasCol(df, column) \/ ~is_numeric_dtype(DtypeOf(df, column))
    THEN df
    ELSE IF min # None /\ max # None
         THEN Mask(df, And(Ge(df, column, min), Lt(df, column, max)))
    ELSE IF min # None
         THEN Mask(df, Ge(df, column, min))
    ELSE IF max # None
         THEN Mask(df, Lt(df, column, max))
    ELSE df

\* numeric_filter returning the kept rows in reverse order
numeric_filter_reversed(df, column, min, max) ==
    IF ~df.present \/ ~HasCol(df, column) \/ ~is_numeric_dtype(DtypeOf(df, column))
    THEN df
    ELSE LET lo == IF min # None THEN Ge(df, column, min) ELSE [i \in DOMAIN df.rows |-> TRUE]
             hi == IF max # None THEN Le(df, column, max) ELSE [i \in DOMAIN df.rows |-> TRUE]
             kept == KeepWhere(df.rows, And(lo, hi))
         IN [df EXCEPT !.rows = [i \in DOMAIN kept |-> kept[Len(kept) + 1 - i]]]

numeric_filter(df, column, min, max) ==
    IF ~df.present \/ ~HasCol(df, column) \/ ~is_numeric_dtype(DtypeOf(df, column))
    THEN df
    ELSE IF min # None /\ max # None
         THEN Mask(df, And(Ge(df, column, min), Le(df, column, max)))
    ELSE IF min # None
         THEN Mask(df, Ge(df, column, min))
    ELSE IF max # None
         THEN Mask(df, Le(df, column, max))
    ELSE df

\* categorical_filter without the guard on an empty selection
categorical_filter_no_guard(df, column, selected_categories) ==
    IF \/ ~df.present
       \/ ~HasCol(df, column)
       \/ (~is_categorical_dtype(DtypeOf(df, column)) /\ ~is_object_dtype(DtypeOf(df, column)))
    THEN df
    ELSE Mask(df, IsIn(df, column, selected_categories))

categorical_filter(df, column, selected_categories) ==
    IF \/ ~df.present
       \/ ~HasCol(df, column)
       \/ (~is_categorical_dtype(DtypeOf(df, column)) /\ ~is_object_dtype(DtypeOf(df, column)))
    THEN df
    ELSE IF selected_categories # {}
         THEN Mask(df, IsIn(df, column, selected_categories))
    ELSE df

\* date_filter without the dtype check
date_filter_unchecked(df, column, start_date, end_date) ==
    IF ~df.present \/ ~HasCol(df, column)
    THEN df
    ELSE IF start_date # None /\ end_date # None
         THEN Mask(df, And(Ge(df, column, start_date), Le(df, column, end_date)))
    ELSE IF start_date # None
         THEN Mask(df, Ge(df, column, start_date))
    ELSE IF end_date # None
         THEN Mask(df, Le(df, column, end_date))
    ELSE df

date_filter(df, column, start_date, end_date) ==
    IF ~df.present \/ ~HasCol(df, column) \/ ~is_datetime64_any_dtype(DtypeOf(df, column))
    THEN df
    ELSE IF start_date # None /\ end_date # None
         THEN Mask(df, And(Ge(df, column, start_date), Le(df, column, end_date)))
    ELSE IF start_date # None
         THEN Mask(df, Ge(df, column, start_date))
    ELSE IF end_date # None
         THEN Mask(df, Le(df, column, end_date))
    ELSE df

\* A date bound is None, a date, text that is not a date, or the empty text;
\* pandas parses the text it is compared with: the empty text parses to NaT,
\* which compares False like NaN, and text that is not a date raises TypeError.
InvalidDate == <<2, 0>>
EmptyDate == NaN

\* date_filter raises: the column passes the dtype check and a bound that is
\* compared is not a date (both comparisons are evaluated before the &)
date_filter_raises(df, column, start_date, end_date) ==
    /\ df.present
    /\ HasCol(df, column)
    /\ is_datetime64_any_dtype(DtypeOf(df, column))
    /\ (start_date = InvalidDate \/ end_date = InvalidDate)

\* ------------------------------------------------------ unified entry point
\* One entry of filters_config: the column and its filter_info; a key missing
\* from filter_info reads as None (values: the empty list).
FilterEntry(column, type, lo, hi, values) ==
    [column |-> column, lo |-> lo, hi |-> hi, type |-> type, values |-> values]

\* the loop body without the test of the column against the classification
ApplyEntry_unclassified(df, filtered, e, cls) ==
    IF ~HasCol(df, e.column)
    THEN filtered
    ELSE IF e.type = "numeric"
         THEN IF e.lo # None /\ e.hi # None
              THEN numeric_filter(filtered, e.column, e.lo, e.hi)
              ELSE filtered
    ELSE IF e.type = "categorical"
         THEN IF e.values # {}
              THEN categorical_filter(filtered, e.column, e.values)
              ELSE filtered
    ELSE IF e.type = "date"
         THEN date_filter(filtered, e.column, e.lo, e.hi)
    ELSE filtered

\* the body of the loop over filters_config.items(), for one entry
ApplyEntry(df, filtered, e, cls) ==
    IF ~HasCol(df, e.column)
    THEN filtered
    ELSE IF e.type = "numeric" /\ e.column \in Range(cls.numeric_cols)
         THEN IF e.lo # None /\ e.hi # None
              THEN numeric_filter(filtered, e.column, e.lo, e.hi)
              ELSE filtered
    ELSE IF e.type = "categorical" /\ e.column \in Range(cls.categorical_cols)
         THEN IF e.values # {}
              THEN categorical_filter(filtered, e.column, e.values)
              ELSE filtered
    ELSE IF e.type = "date" /\ e.column \in Range(cls.datetime_cols)
         THEN date_filter(filtered, e.column, e.lo, e.hi)
    ELSE filtered

RECURSIVE ApplyEntries(_, _, _, _)
ApplyEntries(df, filtered, config, cls) ==
    IF config = <<>>
    THEN filtered
    ELSE ApplyEntries(df, ApplyEntry(df, filtered, Head(config), cls), Tail(config), cls)

\* filter_data slicing the first row off its result
filter_data_skip_first(df, filters_config, cls) ==
    IF ~df.present
    THEN df
    ELSE IF filters_config = <<>>
         THEN df
    ELSE LET out == ApplyEntries(df, df, filters_config, cls)
         IN [out EXCEPT !.rows = IF @ = <<>> THEN @ ELSE Tail(@)]

filter_data(df, filters_config, cls) ==
    IF ~df.present
    THEN df
    ELSE IF filters_config = <<>>
         THEN df
    ELSE ApplyEntries(df, df, filters_config, cls)

\* filter_data raises: a date entry that is applied makes date_filter raise
\* (filters keep the columns of the table, so the dtype check reads df)
filter_data_raises(df, filters_config, cls) ==
    /\ df.present
    /\ \E i \in DOMAIN filters_config :
          LET e == filters_config[i]
          IN  /\ HasCol(df, e.column)
              /\ e.type = "date"
              /\ e.column \in Range(cls.datetime_cols)
              /\ date_filter_raises(df, e.column, e.lo, e.hi)

get_filtered_data_row_count(df) ==
    IF df.present THEN Len(df.rows) ELSE 0

\* ------------------------------------------------------------ loader/cleaner
MsgUnsupported == "Unsupported file format. Please upload a CSV or Excel file."
MsgNoFile == "No file uploaded. Please upload a valid CSV or Excel file."
MsgCleaned == "Data loaded and cleaned successfully."
MsgFailed == "Failed to load and clean data."

\* a census: the dict of column -> count of missing cells, in column order;
\* NoCensus is Python None, EmptyCensus is {}
NoCensus == [isdict |-> FALSE, items |-> <<>>]
EmptyCensus == [isdict |-> TRUE, items |-> <<>>]

\* A file handle: its name (text tokens, the extension last) and what the
\* pandas parser does with its bytes: returns a table, raises a ValueError
\* (pandas ParserError, EmptyDataError and UnicodeDecodeError are ValueErrors)
\* with the parser's message, or raises another exception.  NoFile is None.
NoFile == [name |-> <<>>, isfile |-> FALSE, parse |-> "none", table |-> NoneDF, msg |-> ""]

\* file.name.endswith(suffix)
EndsWith(name, suffix) == name # <<>> /\ name[Len(name)] = suffix

\* a try block whose parser gives None back for content it cannot read
TryRead_returns_none(f) ==
    IF ~f.isfile
    THEN [data |-> NoneDF, msg |-> "", raised |-> "AttributeError"]
    ELSE IF EndsWith(f.name, ".csv") \/ EndsWith(f.name, ".xls") \/ EndsWith(f.name, ".xlsx")
         THEN IF f.parse = "table"
              THEN [data |-> f.table, msg |-> "", raised |-> "none"]
              ELSE [data |-> NoneDF, msg |-> "", raised |-> "none"]
    ELSE [data |-> NoneDF, msg |-> MsgUnsupported, raised |-> "ValueError"]

\* the try block: the exception raised ("none": no exception), its message, the table read
TryRead(f) ==
    IF ~f.isfile
    THEN [data |-> NoneDF, msg |-> "", raised |-> "AttributeError"]
    ELSE IF EndsWith(f.name, ".csv") \/ EndsWith(f.name, ".xls") \/ EndsWith(f.name, ".xlsx")
         THEN IF f.parse = "table"
              THEN [data |-> f.table, msg |-> "", raised |-> "none"]
              ELSE [data |-> NoneDF, msg |-> f.msg, raised |-> f.parse]
    ELSE [data |-> NoneDF, msg |-> MsgUnsupported, raised |-> "ValueError"]

\* data.isnull().sum().to_dict()
NullCount(df, i) == Cardinality({r \in DOMAIN df.rows : IsNull(df.rows[r].cells[i])})

\* a census that counts the number columns only
isnull_sum_numbers_only(df) ==
    [isdict |-> TRUE,
     items |-> LET sel == SelectSeq([i \in DOMAIN df.cols |-> i],
                                    LAMBDA i : df.cols[i].dtype \in IncludeNumber)
               IN  [k \in DOMAIN sel |->
                        [column |-> df.cols[sel[k]].name, count |-> NullCount(df, sel[k])]]]

isnull_sum(df) ==
    [isdict |-> TRUE,
     items |-> [i \in DOMAIN df.cols |-> [column |-> df.cols[i].name, count |-> NullCount(df, i)]]]

RECURSIVE GCD(_, _)
GCD(a, b) == IF b = 0 THEN a ELSE GCD(b, a % b)

\* the rational n/d in lowest terms
Ratio(n, d) == <<n \div GCD(n, d), d \div GCD(n, d)>>

RECURSIVE SumCells(_)
SumCells(cells) ==
    IF cells = <<>> THEN <<0, 1>>
    ELSE LET h == Head(cells)
             t == SumCells(Tail(cells))
         IN  Ratio(h[1] * t[2] + t[1] * h[2], h[2] * t[2])

\* a mean that counts the missing cells as zeros
Mean_over_all_rows(df, column) ==
    LET present == SelectSeq(Col(df, column), LAMBDA c : ~IsNull(c))
        total == SumCells(present)
    IN  IF present = <<>> THEN NaN ELSE Ratio(total[1], total[2] * Len(Col(df, column)))

\* data[col].mean(): the mean of the non-missing cells, NaN when there is none
Mean(df, column) ==
    LET present == SelectSeq(Col(df, column), LAMBDA c : ~IsNull(c))
        total == SumCells(present)
    IN  IF present = <<>> THEN NaN ELSE Ratio(total[1], total[2] * Len(present))

\* data[col] = data[col].fillna(value)
fillna(df, column, value) ==
    LET ci == ColIndex(df, column)
    IN  [df EXCEPT !.rows =
            [r \in DOMAIN @ |->
                IF IsNull(@[r].cells[ci]) THEN [@[r] EXCEPT !.cells[ci] = value] ELSE @[r]]]

\* for col in numeric_cols: data[col] = data[col].fillna(data[col].mean())
RECURSIVE FillNumeric(_, _)
FillNumeric(df, numeric_cols) ==
    IF numeric_cols = <<>> THEN df
    ELSE FillNumeric(fillna(df, Head(numeric_cols), Mean(df, Head(numeric_cols))),
                     Tail(numeric_cols))

HasNull(row) == \E i \in DOMAIN row.cells : IsNull(row.cells[i])

\* a dropna that drops only the rows that are missing in every column
dropna_how_all(df) ==
    [df EXCEPT !.rows = SelectSeq(@, LAMBDA r : \E i \in DOMAIN r.cells : ~IsNull(r.cells[i]))]

\* data.dropna()
dropna(df) == [df EXCEPT !.rows = SelectSeq(@, LAMBDA r : ~HasNull(r))]

\* a reset_index that keeps the labels the rows had
reset_index_keep_labels(df) ==
    [df EXCEPT !.rows = [r \in DOMAIN @ |-> [@[r] EXCEPT !.idx = @]]]

\* data.reset_index(drop=True)
reset_index(df) == [df EXCEPT !.rows = [r \in DOMAIN @ |-> [@[r] EXCEPT !.idx = r - 1]]]

\* a loader whose failure paths return None for the census
load_clean_data_census_none(f) ==
    LET read == TryRead(f)
    IN  IF read.raised = "ValueError"
        THEN [data |-> NoneDF, missing_values |-> NoCensus, message |-> read.msg, arity |-> 3]
        ELSE IF read.raised # "none"
        THEN [data |-> NoneDF, missing_values |-> NoCensus, message |-> MsgNoFile, arity |-> 3]
        ELSE IF read.data.present
        THEN [data |-> reset_index(dropna(FillNumeric(read.data,
                                            select_dtypes(read.data, IncludeNumber)))),
              missing_values |-> isnull_sum(read.data),
              message |-> MsgCleaned,
              arity |-> 3]
        ELSE [data |-> NoneDF, missing_values |-> EmptyCensus, message |-> MsgFailed, arity |-> 2]

\* a loader that counts the missing cells after cleaning instead of before
load_clean_data_census_last(f) ==
    LET read == TryRead(f)
        cleaned == reset_index(dropna(FillNumeric(read.data,
                                        select_dtypes(read.data, IncludeNumber))))
    IN  IF read.raised = "ValueError"
        THEN [data |-> NoneDF, missing_values |-> EmptyCensus, message |-> read.msg, arity |-> 3]
        ELSE IF read.raised # "none"
        THEN [data |-> NoneDF, missing_values |-> EmptyCensus, message |-> MsgNoFile, arity |-> 3]
        ELSE IF read.data.present
        THEN [data |-> cleaned, missing_values |-> isnull_sum(cleaned),
              message |-> MsgCleaned, arity |-> 3]
        ELSE [data |-> NoneDF, missing_values |-> EmptyCensus, message |-> MsgFailed, arity |-> 2]

\* what load_clean_data returns: arity is the length of the returned tuple
load_clean_data(f) ==
    LET read == TryRead(f)
    IN  IF read.raised = "ValueError"
        THEN [data |-> NoneDF, missing_values |-> EmptyCensus, message |-> read.msg, arity |-> 3]
        ELSE IF read.raised # "none"
        THEN [data |-> NoneDF, missing_values |-> EmptyCensus, message |-> MsgNoFile, arity |-> 3]
        ELSE IF read.data.present
        THEN [data |-> reset_index(dropna(FillNumeric(read.data,
                                            select_dtypes(read.data, IncludeNumber)))),
              missing_values |-> isnull_sum(read.data),
              message |-> MsgCleaned,
              arity |-> 3]
        ELSE [data |-> NoneDF, missing_values |-> EmptyCensus, message |-> MsgFailed, arity |-> 2]

\* ------------------------------------------------------------------ session
PreviewRows == 100
MsgLoaded == "Data loaded successfully."

\* str(n) of a row count: its decimal digits
RECURSIVE Str(_)
Str(n) == IF n < 10 THEN <<n>> ELSE Str(n \div 10) \o <<n % 10>>

\* data.head(n), of a table
head(df, n) ==
    IF Len(df.rows) <= n THEN df ELSE [df EXCEPT !.rows = SubSeq(@, 1, n)]

\* None as the value of current_filter
NoFilter == [config |-> <<>>, isset |-> FALSE]

\* load_data: the three outputs of the upload button; raised when the result
\* of load_clean_data does not unpack into three names
load_data(f) ==
    LET r == load_clean_data(f)
    IN  IF r.arity # 3
        THEN [data |-> NoneDF, missing_values |-> NoCensus, raised |-> TRUE, string |-> ""]
        ELSE IF ~r.data.present
        THEN [data |-> r.data, missing_values |-> r.missing_values, raised |-> FALSE,
              string |-> r.message]
        ELSE [data |-> r.data, missing_values |-> r.missing_values, raised |-> FALSE,
              string |-> MsgLoaded]

\* the type name update_filter_options shows for a column
TypeLabel(dt) ==
    IF is_numeric_dtype(dt) THEN "Numeric"
    ELSE IF is_categorical_dtype(dt) \/ is_object_dtype(dt) THEN "Categorical"
    ELSE IF is_datetime64_any_dtype(dt) THEN "Datetime"
    ELSE dt

\* f"{column} - {dtype}"
ChoiceLabel(c) == c.name \o <<" - ", TypeLabel(c.dtype)>>

\* column.split(" - ")[0]
RECURSIVE Split0(_)
Split0(label) ==
    IF label = <<>> THEN <<>>
    ELSE IF Head(label) = " - " THEN <<>>
    ELSE <<Head(label)>> \o Split0(Tail(label))

\* update_filter_options: choices, total rows, filtered rows, preview
update_filter_options(df) ==
    IF ~df.present
    THEN [filtered |-> Str(0), total |-> Str(0), choices |-> <<>>, display |-> NoneDF]
    ELSE [filtered |-> Str(Len(df.rows)),
          total |-> Str(Len(df.rows)),
          choices |-> [i \in DOMAIN df.cols |-> ChoiceLabel(df.cols[i])],
          display |-> head(df, PreviewRows)]

\* data[column].min() and .max(): over the non-missing cells, NaN when there is none
ColMin(df, column) ==
    LET cs == {c \in Range(Col(df, column)) : ~IsNull(c)}
    IN  IF cs = {} THEN NaN ELSE CHOOSE c \in cs : \A d \in cs : Leq(c, d)

ColMax(df, column) ==
    LET cs == {c \in Range(Col(df, column)) : ~IsNull(c)}
    IN  IF cs = {} THEN NaN ELSE CHOOSE c \in cs : \A d \in cs : Leq(d, c)

\* the result (None, None, "0") of a rejected filter action
Rejected == [count |-> Str(0), display |-> NoneDF, filter |-> NoFilter]

\* the tail of the three add_*_filter_to_state handlers: apply and report
ApplyAndReport(df, config) ==
    LET filtered == filter_data(df, config, get_data_cols(df))
    IN  [count |-> Str(get_filtered_data_row_count(filtered)),
         display |-> head(filtered, PreviewRows),
         filter |-> [config |-> config, isset |-> TRUE]]

add_numeric_filter_to_state(df, column, num_min, num_max) ==
    IF ~df.present \/ column = NoColumn
    THEN Rejected
    ELSE IF Split0(column) \notin Range(get_data_cols(df).numeric_cols)
    THEN Rejected
    ELSE LET col == Split0(column)
             min_val == IF num_min # None THEN num_min ELSE ColMin(df, col)
             max_val == IF num_max # None THEN num_max ELSE ColMax(df, col)
         IN  ApplyAndReport(df, <<FilterEntry(col, "numeric", min_val, max_val, {})>>)

add_categorical_filter_to_state(df, column, selected_values) ==
    IF ~df.present \/ column = NoColumn \/ selected_values = {}
    THEN Rejected
    ELSE IF Split0(column) \notin Range(get_data_cols(df).categorical_cols)
    THEN Rejected
    ELSE ApplyAndReport(df, <<FilterEntry(Split0(column), "categorical", None, None,
                                          selected_values)>>)

add_date_filter_to_state(df, column, start_date, end_date) ==
    IF ~df.present \/ column = NoColumn
    THEN Rejected
    ELSE IF Split0(column) \notin Range(get_data_cols(df).datetime_cols)
    THEN Rejected
    ELSE ApplyAndReport(df, <<FilterEntry(Split0(column), "date", start_date, end_date, {})>>)

\* add_date_filter_to_state raises: the column is accepted and filter_data raises
add_date_filter_to_state_raises(df, column, start_date, end_date) ==
    /\ df.present
    /\ column # NoColumn
    /\ Split0(column) \in Range(get_data_cols(df).datetime_cols)
    /\ filter_data_raises(df, <<FilterEntry(Split0(column), "date", start_date, end_date, {})>>,
                          get_data_cols(df))

clear_current_filter(df) ==
    IF ~df.present
    THEN Rejected
    ELSE [count |-> Str(Len(df.rows)), display |-> head(df, PreviewRows), filter |-> NoFilter]

\* ------------------------------------------------- read-only requests
MsgNoData == "No data loaded."
MsgNoNumeric == "No numeric columns found in the dataset."

\* a text output: a fixed string, or a text formatted from the values in body
\* (the values themselves are kept, not their digits)
Text(str, body) == [str |-> str, body |-> body]
NoDataText == Text(MsgNoData, <<>>)

\* no request made yet: every output component is empty
NoReport == [raised |-> FALSE, request |-> "none", texts |-> <<>>, frames |-> <<>>]

\* display_data_info: rows, columns, column names, data types
display_data_info(df) ==
    IF ~df.present
    THEN [raised |-> FALSE, request |-> "display_data_info",
          texts |-> <<NoDataText, NoDataText, NoDataText, NoDataText>>, frames |-> <<>>]
    ELSE [raised |-> FALSE, request |-> "display_data_info",
          texts |-> <<Text("", Str(Len(df.rows))), Text("", Str(Len(df.cols))),
                      Text("", Columns(df)), Text("", df.cols)>>,
          frames |-> <<>>]

\* data.tail(n), of a table
tail(df, n) ==
    IF Len(df.rows) <= n THEN df
    ELSE [df EXCEPT !.rows = SubSeq(@, Len(@) - n + 1, Len(@))]

\* preview_data_fn: the first rows and the last rows, None when not asked for
preview_data_fn(df, num_rows, first, last) ==
    [raised |-> FALSE, request |-> "preview_data_fn", texts |-> <<>>,
     frames |-> IF df.present
                THEN <<IF first THEN head(df, num_rows) ELSE NoneDF,
                       IF last THEN tail(df, num_rows) ELSE NoneDF>>
                ELSE <<NoneDF, NoneDF>>]

\* data[column].unique(): the values in order of first appearance
RECURSIVE Unique(_)
Unique(cells) ==
    IF cells = <<>> THEN <<>>
    ELSE LET rest == Unique(SubSeq(cells, 1, Len(cells) - 1))
             last == cells[Len(cells)]
         IN  IF last \in Range(rest) THEN rest ELSE Append(rest, last)

\* compute_statistics: numeric, categorical and missing-value texts and the
\* correlation matrix (its labels); of the statistics the mean, the minimum
\* and the maximum are kept, of the categorical ones the unique values
compute_statistics(df, census) ==
    IF ~df.present
    THEN [raised |-> FALSE, request |-> "compute_statistics",
          texts |-> <<NoDataText, NoDataText, NoDataText>>, frames |-> <<NoneDF>>]
    ELSE IF ~census.isdict
    THEN [raised |-> TRUE, request |-> "compute_statistics", texts |-> <<>>, frames |-> <<>>]
    ELSE LET num == select_dtypes(df, IncludeNumber)
             cat == select_dtypes(df, IncludeObjectCategory)
         IN  [raised |-> FALSE, request |-> "compute_statistics",
              texts |-> <<Text("", [i \in DOMAIN num |->
                                      [column |-> num[i], min |-> ColMin(df, num[i]),
                                       max |-> ColMax(df, num[i]), mean |-> Mean(df, num[i])]]),
                          Text("", [i \in DOMAIN cat |->
                                      [column |-> cat[i],
                                       unique_values |-> Unique(Col(df, cat[i]))]]),
                          Text("", census.items)>>,
              frames |-> <<[present |-> TRUE, cols |-> <<>>, rows |-> <<>>, labels |-> num]>>]

\* ---------------------------------------------------------------- insights
\* the cells of a column as whole numbers on one common scale (each cell
\* times the product of all denominators), and that scale
RECURSIVE Scale(_)
Scale(cells) == IF cells = <<>> THEN 1 ELSE Head(cells)[2] * Scale(Tail(cells))

Scaled(cells) == [i \in DOMAIN cells |-> cells[i][1] * (Scale(cells) \div cells[i][2])]

RECURSIVE SumSeq(_)
SumSeq(xs) == IF xs = <<>> THEN 0 ELSE Head(xs) + SumSeq(Tail(xs))

\* n * (x - mean) for each x: the deviations, times the number of values
Deviations(xs) == [i \in DOMAIN xs |-> Len(xs) * xs[i] - SumSeq(xs)]

SumSquares(xs) == SumSeq([i \in DOMAIN xs |-> Deviations(xs)[i] * Deviations(xs)[i]])

\* data[col].std() squared, with the divisor n; NaN when there are fewer
\* than two values
VarianceBy(cells, divisor) ==
    IF divisor <= 0 \/ cells = <<>> THEN NaN
    ELSE Ratio(SumSquares(Scaled(cells)),
               Len(cells) * Len(cells) * divisor * Scale(cells) * Scale(cells))

\* a mask that flags the values beyond one standard deviation
AnomalyMask_one_sigma(cells) ==
    LET xs == Scaled(cells)
        n == Len(xs)
    IN  [i \in DOMAIN xs |->
            n >= 2 /\ Deviations(xs)[i] * Deviations(xs)[i] * (n - 1) > SumSquares(xs)]

\* (data[col] < mean - 2*std) | (data[col] > mean + 2*std), std the sample
\* standard deviation (divisor n - 1): |x - mean| > 2 * std, compared as
\* squares; every comparison is False when std is NaN
\* the test with the two-sigma boundary itself counted as beyond it
AnomalyMask_inclusive(cells) ==
    LET xs == Scaled(cells)
        n == Len(xs)
    IN  [i \in DOMAIN xs |->
            n >= 2 /\ Deviations(xs)[i] * Deviations(xs)[i] * (n - 1) >= 4 * SumSquares(xs)]

AnomalyMask(cells) ==
    LET xs == Scaled(cells)
        n == Len(xs)
    IN  [i \in DOMAIN xs |->
            n >= 2 /\ Deviations(xs)[i] * Deviations(xs)[i] * (n - 1) > 4 * SumSquares(xs)]

\* the n rows with the largest key, the earlier row first among equal keys
RECURSIVE TakeBest(_, _)
TakeBest(rows, n) ==
    IF n = 0 \/ rows = <<>> THEN <<>>
    ELSE LET b == CHOOSE i \in DOMAIN rows :
                    \A j \in DOMAIN rows :
                        \/ (Leq(rows[j].key, rows[i].key) /\ rows[j].key # rows[i].key)
                        \/ (rows[j].key = rows[i].key /\ i <= j)
         IN  <<[idx |-> rows[b].idx, val |-> rows[b].val]>> \o
             TakeBest([k \in 1..(Len(rows) - 1) |-> IF k < b THEN rows[k] ELSE rows[k + 1]],
                      n - 1)

\* the (index label, value) pairs of a column, with the key they are ranked by
Labelled(df, column, sign) ==
    [i \in DOMAIN df.rows |->
        [idx |-> df.rows[i].idx,
         key |-> <<sign * Col(df, column)[i][1], Col(df, column)[i][2]>>,
         val |-> Col(df, column)[i]]]

\* data.nlargest(n, col)[[col]] and data.nsmallest(n, col)[[col]]
nlargest(df, n, column) == TakeBest(Labelled(df, column, 1), n)

nsmallest(df, n, column) == TakeBest(Labelled(df, column, -1), n)

\* the first n entries of a list: numeric_cols[:3], categorical_cols[:2]
FirstN(seq, n) == SubSeq(seq, 1, IF Len(seq) < n THEN Len(seq) ELSE n)

\* formatting a duration with ":.2f" raises TypeError
FormatRaises(df, columns) ==
    \E i \in DOMAIN columns : DtypeOf(df, columns[i]) = "timedelta64[ns]"

\* generate_top_bottom_performers without its check for an absent table
generate_top_bottom_performers_unguarded(df) ==
    LET numeric_cols == get_data_cols(df).numeric_cols
        cols == FirstN(numeric_cols, 3)
    IN  IF numeric_cols = <<>> THEN [raised |-> FALSE, text |-> Text(MsgNoNumeric, <<>>)]
        ELSE IF FormatRaises(df, cols) /\ df.rows # <<>>
        THEN [raised |-> TRUE, text |-> Text("", <<>>)]
        ELSE [raised |-> FALSE,
              text |-> Text("", [i \in DOMAIN cols |->
                           [column |-> cols[i],
                            top |-> nlargest(df, 5, cols[i]),
                            bottom |-> nsmallest(df, 5, cols[i])]])]

\* generate_top_bottom_performers: the text and whether formatting raised
generate_top_bottom_performers(df) ==
    IF ~df.present THEN [raised |-> FALSE, text |-> NoDataText]
    ELSE LET numeric_cols == get_data_cols(df).numeric_cols
             cols == FirstN(numeric_cols, 3)
         IN  IF numeric_cols = <<>> THEN [raised |-> FALSE, text |-> Text(MsgNoNumeric, <<>>)]
             ELSE IF FormatRaises(df, cols) /\ df.rows # <<>>
             THEN [raised |-> TRUE, text |-> Text("", <<>>)]
             ELSE [raised |-> FALSE,
                   text |-> Text("", [i \in DOMAIN cols |->
                                [column |-> cols[i],
                                 top |-> nlargest(df, 5, cols[i]),
                                 bottom |-> nsmallest(df, 5, cols[i])]])]

\* data[col].mode()[0]: the most frequent value, the smallest among equals;
\* "N/A" (None here) for an empty column
MostCommon(cells) ==
    LET count(v) == Cardinality({i \in DOMAIN cells : cells[i] = v})
        vs == Range(cells)
    IN  IF vs = {} THEN None
        ELSE CHOOSE v \in vs :
                \A w \in vs : count(v) > count(w) \/ (count(v) = count(w) /\ Leq(v, w))

\* the rows of a list that a mask keeps
MaskedCells(cells, mask) ==
    LET keep == SelectSeq([i \in DOMAIN cells |-> i], LAMBDA i : mask[i])
    IN  [k \in DOMAIN keep |-> cells[keep[k]]]

\* the cell that is minimal (maximal) in a non-empty list
MinCell(cells) == CHOOSE c \in Range(cells) : \A d \in Range(cells) : Leq(c, d)
MaxCell(cells) == CHOOSE c \in Range(cells) : \A d \in Range(cells) : Leq(d, c)

\* the analysis of one numeric column: mean, std (its square), the number of
\* anomalies and, when there is one, the anomaly range
NumericAnalysis(df, column) ==
    LET cells == Col(df, column)
        anomalies == MaskedCells(cells, AnomalyMask(cells))
    IN  [column |-> column,
         mean |-> Mean(df, column),
         anomalies |-> Len(anomalies),
         variance |-> VarianceBy(cells, Len(cells) - 1),
         range |-> IF Len(anomalies) > 0
                   THEN <<MinCell(anomalies), MaxCell(anomalies)>>
                   ELSE <<>>]

\* generate_trends_and_anomalies: the first three numeric columns and the
\* first two categorical ones (most common value and number of values)
generate_trends_and_anomalies(df) ==
    IF ~df.present THEN [raised |-> FALSE, text |-> NoDataText]
    ELSE LET num == FirstN(get_data_cols(df).numeric_cols, 3)
             cat == FirstN(get_data_cols(df).categorical_cols, 2)
         IN  IF FormatRaises(df, num)
             THEN [raised |-> TRUE, text |-> Text("", <<>>)]
             ELSE [raised |-> FALSE,
                   text |-> Text("",
                        [numeric |-> [i \in DOMAIN num |-> NumericAnalysis(df, num[i])],
                         categorical |-> [i \in DOMAIN cat |->
                            [column |-> cat[i],
                             most_common |-> MostCommon(Col(df, cat[i])),
                             unique_count |-> Cardinality(Range(Col(df, cat[i])))]]])]

\* generate_all_insights: performers and trends
generate_all_insights(df) ==
    LET performers == generate_top_bottom_performers(df)
        trends == generate_trends_and_anomalies(df)
    IN  [raised |-> performers.raised \/ trends.raised,
         request |-> "generate_all_insights",
         texts |-> <<performers.text, trends.text>>,
         frames |-> <<>>]

\* --------------------------------------------------------------- idle parts
\* no filter call made, no load call made
NoCall == [config |-> <<>>, fn |-> "none", round |-> 0]
NotLoaded == [data |-> NoneDF, missing_values |-> NoCensus, message |-> "", arity |-> 0]

FilterIdle == data = NoneDF /\ call = NoCall /\ result = NoneDF
LoadIdle == file = NoFile /\ loaded = NotLoaded

\* the session as create_dashboard builds it
SessionIdle ==
    /\ file_input = NoFile
    /\ df_state = NoneDF
    /\ missing_values = NoCensus
    /\ current_filter = NoFilter
    /\ upload_status = ""
    /\ filter_column_select = [value |-> NoColumn, choices |-> <<>>]
    /\ total_row_count = Str(0)
    /\ filtered_row_count = Str(0)
    /\ filtered_data_display = NoneDF
    /\ report = NoReport

\* ------------------------------------------------- filter calls: the inputs
\* the cells a column of the given dtype can hold: integer and boolean columns
\* hold no missing cell, a boolean is 0 or 1
CellsOf(dt) ==
    IF dt = "bool" THEN {V(0), V(1)}
    ELSE IF dt = "int64" THEN {V(n) : n \in 0..MaxVal}
    ELSE {NaN} \cup {V(n) : n \in 0..MaxVal}

\* the one-column tables of a dtype with k rows, indexed 0..k-1
OneColumnTables(name, dt, k) ==
    {[present |-> TRUE,
      cols |-> <<[name |-> name, dtype |-> dt]>>,
      rows |-> [i \in 1..k |-> [cells |-> <<cs[i]>>, idx |-> i - 1]]] :
        cs \in [1..k -> CellsOf(dt)]}

FilterTables ==
    {NoneDF} \cup UNION {OneColumnTables(ColAge, dt, k) : dt \in Dtypes, k \in 0..MaxRows}

Bounds == {None} \cup {V(n) : n \in 0..MaxVal}
ValueSets == SUBSET {V(n) : n \in 0..MaxVal}
FilterTypes == {"numeric", "categorical", "date"}

\* the call recorded in `call`, applied to a table
Apply(c, df) ==
    LET e == c.config[1]
    IN  IF c.fn = "numeric_filter" THEN numeric_filter(df, e.column, e.lo, e.hi)
        ELSE IF c.fn = "categorical_filter" THEN categorical_filter(df, e.column, e.values)
        ELSE IF c.fn = "date_filter" THEN date_filter(df, e.column, e.lo, e.hi)
        ELSE filter_data(df, c.config, get_data_cols(df))

InitFilter ==
    /\ data \in FilterTables
    /\ call = NoCall
    /\ result = NoneDF
    /\ LoadIdle
    /\ SessionIdle

Call(c) ==
    /\ call.round = 0
    /\ call' = c
    /\ result' = Apply(c, data)
    /\ UNCHANGED <<data, loadVars, sessionVars>>

CallNumericFilter ==
    \E column \in {ColAge, ColCity}, lo \in Bounds, hi \in Bounds :
        Call([config |-> <<FilterEntry(column, "numeric", lo, hi, {})>>,
              fn |-> "numeric_filter", round |-> 1])

CallCategoricalFilter ==
    \E column \in {ColAge, ColCity}, values \in ValueSets :
        Call([config |-> <<FilterEntry(column, "categorical", None, None, values)>>,
              fn |-> "categorical_filter", round |-> 1])

CallDateFilter ==
    \E column \in {ColAge, ColCity}, lo \in Bounds, hi \in Bounds :
        Call([config |-> <<FilterEntry(column, "date", lo, hi, {})>>,
              fn |-> "date_filter", round |-> 1])

CallFilterData ==
    \/ Call([config |-> <<>>, fn |-> "filter_data", round |-> 1])
    \/ \E column \in {ColAge, ColCity, NoColumn}, lo \in Bounds, hi \in Bounds :
           \E type \in {"numeric", "date"} :
              Call([config |-> <<FilterEntry(column, type, lo, hi, {})>>,
                    fn |-> "filter_data", round |-> 1])
    \/ \E column \in {ColAge, ColCity, NoColumn}, values \in ValueSets :
           Call([config |-> <<FilterEntry(column, "categorical", None, None, values)>>,
                 fn |-> "filter_data", round |-> 1])

\* the same call again, on the table the first call returned
CallAgain ==
    /\ call.round = 1
    /\ call.config # <<>>
    /\ data' = result
    /\ result' = Apply(call, result)
    /\ call' = [call EXCEPT !.round = 2]
    /\ UNCHANGED <<loadVars, sessionVars>>

NextFilter ==
    \/ CallNumericFilter
    \/ CallCategoricalFilter
    \/ CallDateFilter
    \/ CallFilterData
    \/ CallAgain

SpecFilter == InitFilter /\ [][NextFilter]_vars

\* ------------------------------------------------------ classification calls
\* the names columns are given, by position
ColNames == <<ColAge, ColCity, ColDate>>

\* the tables of k columns of any dtypes; classification reads no row
ClassifyTables(k) ==
    {[present |-> TRUE,
      cols |-> [i \in 1..k |-> [name |-> ColNames[i], dtype |-> dts[i]]],
      rows |-> <<>>] : dts \in [1..k -> Dtypes]}

InitClassify ==
    /\ data \in UNION {ClassifyTables(k) : k \in 0..MaxCols}
    /\ call = NoCall
    /\ result = NoneDF
    /\ LoadIdle
    /\ SessionIdle

CallGetDataCols ==
    /\ call.round = 0
    /\ call' = [config |-> <<>>, fn |-> "get_data_cols", round |-> 1]
    /\ result' = get_data_cols(data)
    /\ UNCHANGED <<data, loadVars, sessionVars>>

NextClassify == CallGetDataCols

SpecClassify == InitClassify /\ [][NextClassify]_vars

\* ------------------------------------------------------------ insight calls
\* the values of the analysed column: a common value and a distant one
AnomalyVals == {V(10), V(100)}

InsightTables ==
    UNION {{[present |-> TRUE,
             cols |-> <<[name |-> ColAge, dtype |-> "float64"]>>,
             rows |-> [i \in 1..k |-> [cells |-> <<cs[i]>>, idx |-> i - 1]]] :
                cs \in [1..k -> AnomalyVals]} : k \in 0..AnomalyRows}

InitInsights ==
    /\ data \in InsightTables
    /\ call = NoCall
    /\ result = NoneDF
    /\ LoadIdle
    /\ SessionIdle

CallTopBottomPerformers ==
    /\ call.round = 0
    /\ call' = [config |-> <<>>, fn |-> "generate_top_bottom_performers", round |-> 1]
    /\ result' = generate_top_bottom_performers(data)
    /\ UNCHANGED <<data, loadVars, sessionVars>>

CallTrendsAndAnomalies ==
    /\ call.round = 0
    /\ call' = [config |-> <<>>, fn |-> "generate_trends_and_anomalies", round |-> 1]
    /\ result' = generate_trends_and_anomalies(data)
    /\ UNCHANGED <<data, loadVars, sessionVars>>

NextInsights ==
    \/ CallTopBottomPerformers
    \/ CallTrendsAndAnomalies

SpecInsights == InitInsights /\ [][NextInsights]_vars

\* --------------------------------------------------- load calls: the inputs
\* a cell of a file: missing, or one of two values
RawCells == {NaN, V(0), V(1)}

\* the tables with the given columns and k rows, indexed 0..k-1
RawTables(cols, k) ==
    {[present |-> TRUE,
      cols |-> cols,
      rows |-> [i \in 1..k |-> [cells |-> cs[i], idx |-> i - 1]]] :
        cs \in [1..k -> [DOMAIN cols -> RawCells]]}

\* what read_csv infers: numbers and text
CsvSchemas ==
    {<<[name |-> ColAge, dtype |-> "float64"], [name |-> ColCity, dtype |-> "object"]>>}

\* read_excel also returns timestamp columns
ExcelSchemas ==
    CsvSchemas \cup
    {<<[name |-> ColAge, dtype |-> "float64"], [name |-> ColDate, dtype |-> "datetime64[ns]"]>>}

ParseFailures == {[parse |-> "ValueError", msg |-> "Error tokenizing data"],
                  [parse |-> "BadZipFile", msg |-> "File is not a zip file"]}

FileOf(name, parse, table, msg) ==
    [name |-> name, isfile |-> TRUE, parse |-> parse, table |-> table, msg |-> msg]

FilesNamed(name, schemas) ==
    {FileOf(name, "table", t, "") :
        t \in UNION {RawTables(sc, k) : sc \in schemas, k \in 0..MaxRows}}
    \cup {FileOf(name, p.parse, NoneDF, p.msg) : p \in ParseFailures}

LoadFiles ==
    {NoFile}
    \cup FilesNamed(<<"data", ".csv">>, CsvSchemas)
    \cup FilesNamed(<<"data", ".xls">>, ExcelSchemas)
    \cup FilesNamed(<<"data", ".xlsx">>, ExcelSchemas)
    \cup {FileOf(n, p.parse, NoneDF, p.msg) :
            n \in {<<"data", ".txt">>, <<"data", ".csv", ".bak">>, <<"data">>},
            p \in ParseFailures}

InitLoad ==
    /\ file \in LoadFiles
    /\ loaded = NotLoaded
    /\ FilterIdle
    /\ SessionIdle

CallLoadCleanData ==
    /\ loaded.arity = 0
    /\ loaded' = load_clean_data(file)
    /\ UNCHANGED <<file, filterVars, sessionVars>>

NextLoad == CallLoadCleanData

SpecLoad == InitLoad /\ [][NextLoad]_vars

\* ------------------------------------------------------- session: the inputs
\* the rows of the uploaded tables: a full row, a row whose number is missing,
\* a row whose text is missing; and for timestamps two full rows
CsvRows == {<<V(0), V(0)>>, <<NaN, V(1)>>, <<V(1), NaN>>}
ExcelRows == {<<V(0), V(0)>>, <<V(1), V(1)>>}

SessionTables(cols, rowset, k) ==
    {[present |-> TRUE,
      cols |-> cols,
      rows |-> [i \in 1..k |-> [cells |-> cs[i], idx |-> i - 1]]] :
        cs \in [1..k -> rowset]}

SessionCsv == <<[name |-> ColAge, dtype |-> "float64"], [name |-> ColCity, dtype |-> "object"]>>
SessionExcel == <<[name |-> ColAge, dtype |-> "int64"], [name |-> ColDate, dtype |-> "datetime64[ns]"]>>

SessionFiles ==
    {NoFile}
    \cup {FileOf(<<"data", ".csv">>, "table", t, "") :
            t \in UNION {SessionTables(SessionCsv, CsvRows, k) : k \in 0..MaxRows}}
    \cup {FileOf(<<"data", ".xlsx">>, "table", t, "") :
            t \in UNION {SessionTables(SessionExcel, ExcelRows, k) : k \in 0..MaxRows}}
    \cup {FileOf(<<"data", ".csv">>, p.parse, NoneDF, p.msg) : p \in ParseFailures}
    \cup {FileOf(<<"data", ".txt">>, "ValueError", NoneDF, "Error tokenizing data")}

\* what the user can type or pick in the filter inputs
SessionVals == {0, 1}
SessionBounds == {None} \cup {V(n) : n \in SessionVals}
SessionValueSets == SUBSET {V(n) : n \in SessionVals}
SessionDates == {None, EmptyDate, InvalidDate} \cup {V(n) : n \in SessionVals}

Init ==
    /\ SessionIdle
    /\ FilterIdle
    /\ LoadIdle

LoadData == [f \in SessionFiles |-> load_data(f)]

\* an upload that keeps the table and the census it had when the load fails
Upload_keep_on_failure ==
    \E f \in SessionFiles, fires \in BOOLEAN :
        LET out == LoadData[f]
            kept == IF out.data.present THEN out.data ELSE df_state
            opts == update_filter_options(kept)
        IN  /\ ~out.raised
            /\ (kept # df_state) => fires
            /\ file_input' = f
            /\ df_state' = kept
            /\ upload_status' = out.string
            /\ missing_values' = IF out.data.present THEN out.missing_values ELSE missing_values
            /\ IF fires
               THEN /\ filter_column_select' =
                            [filter_column_select EXCEPT !.choices = opts.choices]
                    /\ total_row_count' = opts.total
                    /\ filtered_row_count' = opts.filtered
                    /\ filtered_data_display' = opts.display
               ELSE UNCHANGED <<filter_column_select, total_row_count,
                                filtered_row_count, filtered_data_display>>
            /\ UNCHANGED <<current_filter, report, filterVars, loadVars>>

\* upload_btn.click: the user picks a file and uploads it.  Writing df_state
\* fires df_state.change (update_filter_options) when the table's value
\* changed; when the value is the same the event may or may not fire.
Upload ==
    \E f \in SessionFiles, fires \in BOOLEAN :
        LET out == LoadData[f]
            opts == update_filter_options(out.data)
        IN  /\ ~out.raised
            /\ (out.data # df_state) => fires
            /\ file_input' = f
            /\ df_state' = out.data
            /\ upload_status' = out.string
            /\ missing_values' = out.missing_values
            /\ IF fires
               THEN /\ filter_column_select' =
                            [filter_column_select EXCEPT !.choices = opts.choices]
                    /\ total_row_count' = opts.total
                    /\ filtered_row_count' = opts.filtered
                    /\ filtered_data_display' = opts.display
               ELSE UNCHANGED <<filter_column_select, total_row_count,
                                filtered_row_count, filtered_data_display>>
            /\ UNCHANGED <<current_filter, report, filterVars, loadVars>>

\* the user picks a choice of the column dropdown
SelectColumn ==
    /\ \E i \in DOMAIN filter_column_select.choices :
        filter_column_select' =
            [filter_column_select EXCEPT !.value = filter_column_select.choices[i]]
    /\ UNCHANGED <<file_input, df_state, missing_values, current_filter, upload_status,
                   total_row_count, filtered_row_count, filtered_data_display,
                   report, filterVars, loadVars>>

\* clear_button_1.click: clear_selection
ClearSelection ==
    /\ filter_column_select' = [filter_column_select EXCEPT !.value = NoColumn]
    /\ UNCHANGED <<file_input, df_state, missing_values, current_filter, upload_status,
                   total_row_count, filtered_row_count, filtered_data_display,
                   report, filterVars, loadVars>>

\* filter outputs whose view is narrowed to the rows already on display
FilterOutputs_composed(out) ==
    /\ current_filter' = out.filter
    /\ filtered_data_display' =
          IF out.display.present /\ filtered_data_display.present
          THEN [out.display EXCEPT !.rows =
                    SelectSeq(@, LAMBDA r : r \in Range(filtered_data_display.rows))]
          ELSE out.display
    /\ filtered_row_count' = out.count
    /\ UNCHANGED <<file_input, df_state, missing_values, upload_status,
                   filter_column_select, total_row_count, report, filterVars, loadVars>>

\* filter outputs that also store the filtered view as the session table
FilterOutputs_writes_table(out) ==
    /\ current_filter' = out.filter
    /\ filtered_data_display' = out.display
    /\ filtered_row_count' = out.count
    /\ df_state' = out.display
    /\ UNCHANGED <<file_input, missing_values, upload_status,
                   filter_column_select, total_row_count, report, filterVars, loadVars>>

\* the three outputs of a filter button
FilterOutputs(out) ==
    /\ current_filter' = out.filter
    /\ filtered_data_display' = out.display
    /\ filtered_row_count' = out.count
    /\ UNCHANGED <<file_input, df_state, missing_values, upload_status,
                   filter_column_select, total_row_count, report, filterVars, loadVars>>

\* apply_numeric_filter_btn.click
ApplyNumericFilter ==
    /\ \E num_min \in SessionBounds, num_max \in SessionBounds :
        FilterOutputs(add_numeric_filter_to_state(df_state, filter_column_select.value,
                                                  num_min, num_max))

\* apply_categorical_filter_btn.click
ApplyCategoricalFilter ==
    /\ \E selected_values \in SessionValueSets :
        FilterOutputs(add_categorical_filter_to_state(df_state, filter_column_select.value,
                                                      selected_values))

\* apply_date_filter_btn.click; when the handler raises no output is written
ApplyDateFilter ==
    /\ \E start_date \in SessionDates, end_date \in SessionDates :
        IF add_date_filter_to_state_raises(df_state, filter_column_select.value,
                                           start_date, end_date)
        THEN UNCHANGED vars
        ELSE FilterOutputs(add_date_filter_to_state(df_state, filter_column_select.value,
                                                    start_date, end_date))

\* clear_filter_btn.click
ClearFilter ==
    /\ FilterOutputs(clear_current_filter(df_state))

Next ==
    \/ Upload
    \/ SelectColumn
    \/ ClearSelection
    \/ ApplyNumericFilter
    \/ ApplyCategoricalFilter
    \/ ApplyDateFilter
    \/ ClearFilter

Spec == Init /\ [][Next]_vars

\* --------------------------------------------- session: read-only requests
\* what a request leaves alone: everything but its own output components
requestRest == <<file_input, df_state, missing_values, current_filter, upload_status,
                 filter_column_select, total_row_count, filtered_row_count,
                 filtered_data_display, filterVars, loadVars>>

\* the session as built, or as an upload of some file leaves it
InitRequests ==
    /\ FilterIdle
    /\ LoadIdle
    /\ report = NoReport
    /\ current_filter = NoFilter
    /\ \/ SessionIdle
       \/ \E f \in SessionFiles :
            LET out == LoadData[f]
                opts == update_filter_options(out.data)
            IN  /\ file_input = f
                /\ df_state = out.data
                /\ upload_status = out.string
                /\ missing_values = out.missing_values
                /\ filter_column_select = [value |-> NoColumn, choices |-> opts.choices]
                /\ total_row_count = opts.total
                /\ filtered_row_count = opts.filtered
                /\ filtered_data_display = opts.display

\* a request that raised leaves its output components as they were
Respond(out) ==
    /\ report' = IF out.raised THEN report ELSE out
    /\ UNCHANGED requestRest

\* data_preview_btn.click ("Display Data Info")
DisplayDataInfo == Respond(display_data_info(df_state))

\* the positions of the row slider that are tried
PreviewSizes == {1, MaxRows}

\* data_preview_btn.click ("Preview Data")
PreviewData ==
    \E num_rows \in PreviewSizes, first \in BOOLEAN, last \in BOOLEAN :
        Respond(preview_data_fn(df_state, num_rows, first, last))

\* stats_btn.click
ComputeStatistics == Respond(compute_statistics(df_state, missing_values))

\* insights_btn.click
GenerateInsights == Respond(generate_all_insights(df_state))

NextRequests ==
    \/ DisplayDataInfo
    \/ PreviewData
    \/ ComputeStatistics
    \/ GenerateInsights

SpecRequests == InitRequests /\ [][NextRequests]_vars

\* ================================================================ properties
RECURSIVE IsSubSeq(_, _)
IsSubSeq(s, t) ==
    IF s = <<>> THEN TRUE
    ELSE IF t = <<>> THEN FALSE
    ELSE IF Head(s) = Head(t) THEN IsSubSeq(Tail(s), Tail(t))
    ELSE IsSubSeq(s, Tail(t))

\* the classification sequence that matches a filter kind
MatchingCols(df, type) ==
    IF type = "numeric" THEN get_data_cols(df).numeric_cols
    ELSE IF type = "categorical" THEN get_data_cols(df).categorical_cols
    ELSE get_data_cols(df).datetime_cols

\* a single-entry spec whose kind matches the class of its column
ValidSpec(df, config) ==
    /\ df.present
    /\ Len(config) = 1
    /\ HasCol(df, config[1].column)
    /\ config[1].column \in Range(MatchingCols(df, config[1].type))

\* the per-kind filter a single entry names, called with the entry's parameters
PerKind(df, e) ==
    IF e.type = "numeric" THEN numeric_filter(df, e.column, e.lo, e.hi)
    ELSE IF e.type = "categorical" THEN categorical_filter(df, e.column, e.values)
    ELSE date_filter(df, e.column, e.lo, e.hi)

\* lower <= v <= upper, an absent bound imposing no constraint on its side
InRange(v, lo, hi) ==
    /\ (lo = None \/ Leq(lo, v))
    /\ (hi = None \/ Leq(v, hi))

\* the type check a per-kind filter makes on its column
AcceptsDtype(fn, dt) ==
    IF fn = "numeric_filter" THEN is_numeric_dtype(dt)
    ELSE IF fn = "categorical_filter" THEN is_categorical_dtype(dt) \/ is_object_dtype(dt)
    ELSE is_datetime64_any_dtype(dt)

PerKindCall == call.round = 1 /\ call.fn \in {"numeric_filter", "categorical_filter", "date_filter"}

\* the per-kind call passed the filter's validation of table, column and dtype
PassedValidation ==
    /\ data.present
    /\ HasCol(data, call.config[1].column)
    /\ AcceptsDtype(call.fn, DtypeOf(data, call.config[1].column))

\* C1: filtering is idempotent: filter_data applied again, with the same valid
\* single-entry spec, to the table it returned gives that table back, the same
\* rows in the same order.
C1_Idempotent ==
    (call.fn = "filter_data" /\ call.round = 2 /\ ValidSpec(data, call.config))
        => result = data

\* a valid spec applied twice, where the first pass dropped row 0 and kept row 1
C1_Witness ==
    /\ call.fn = "filter_data"
    /\ call.round = 2
    /\ ValidSpec(data, call.config)
    /\ Len(data.rows) = 1
    /\ data.rows[1].idx = 1
    /\ result = data

\* C2: filtering never adds rows: for every spec, valid or not, the rows
\* filter_data returns are a sub-sequence of the rows of its input, so the row
\* count of the result is at most the row count of the input.
C2_NeverAddsRows ==
    (call.fn = "filter_data" /\ call.round = 1)
        => /\ IsSubSeq(result.rows, data.rows)
           /\ get_filtered_data_row_count(result) <= get_filtered_data_row_count(data)

\* a valid numeric spec that drops one of two rows and keeps the other
C2_Witness ==
    /\ call.fn = "filter_data"
    /\ call.round = 1
    /\ ValidSpec(data, call.config)
    /\ call.config[1].type = "numeric"
    /\ Len(data.rows) = 2
    /\ Len(result.rows) = 1

\* C3: no-op filters: numeric_filter with min and max absent, categorical_filter
\* with an empty value set and date_filter with start and end absent return every
\* row of the table, in order.
C3_NoOpFilters ==
    LET e == call.config[1]
    IN  /\ (PerKindCall /\ call.fn \in {"numeric_filter", "date_filter"}
                /\ e.lo = None /\ e.hi = None) => result = data
        /\ (PerKindCall /\ call.fn = "categorical_filter" /\ e.values = {})
                => result = data

\* an empty selection on a categorical column with rows
C3_Witness ==
    /\ PerKindCall
    /\ call.fn = "categorical_filter"
    /\ call.config[1].values = {}
    /\ PassedValidation
    /\ Len(data.rows) = MaxRows
    /\ result = data

\* C4: each per-kind filter keeps exactly the rows satisfying its predicate:
\* numeric_filter and date_filter keep a row iff lower <= value <= upper, both
\* ends inclusive, an absent bound imposing no constraint; categorical_filter
\* with a non-empty value set keeps a row iff its cell is in the set.
C4_PredicateSemantics ==
    LET e == call.config[1]
        ci == ColIndex(data, e.column)
    IN  (PerKindCall /\ PassedValidation) =>
            IF call.fn = "categorical_filter"
            THEN e.values # {} =>
                    result.rows = SelectSeq(data.rows, LAMBDA r : r.cells[ci] \in e.values)
            ELSE result.rows = SelectSeq(data.rows, LAMBDA r : InRange(r.cells[ci], e.lo, e.hi))

\* a range whose upper end equals a cell: that row is kept, a larger one dropped
C4_Witness ==
    /\ PerKindCall
    /\ PassedValidation
    /\ call.fn = "numeric_filter"
    /\ call.config[1].lo = None
    /\ call.config[1].hi = V(1)
    /\ Len(data.rows) = 2
    /\ data.rows[1].cells = <<V(2)>>
    /\ data.rows[2].cells = <<V(1)>>
    /\ Len(result.rows) = 1
    /\ result.rows[1].idx = 1

\* C5: the unified entry point applies the per-kind semantics: for every valid
\* single-entry spec filter_data returns the rows the per-kind filter returns
\* when called with the spec's parameters, numeric specs with exactly one of
\* min/max absent included.
C5_UnifiedMatchesPerKind ==
    (call.fn = "filter_data" /\ call.round = 1 /\ ValidSpec(data, call.config))
        => result.rows = PerKind(data, call.config[1]).rows

\* C6: the per-kind filters degrade to a no-op on validation failure: when the
\* table is absent, the column is not in the table or the column's dtype fails
\* the filter's type check, the input comes back unchanged (None for None),
\* whatever bounds or values were supplied.
C6_PerKindNoOpOnFailure ==
    (PerKindCall /\ ~PassedValidation) => result = data

\* a date range that excludes every cell, given a text column: nothing dropped
C6_Witness ==
    /\ PerKindCall
    /\ call.fn = "date_filter"
    /\ data.present
    /\ HasCol(data, call.config[1].column)
    /\ DtypeOf(data, call.config[1].column) = "object"
    /\ call.config[1].lo = V(1)
    /\ call.config[1].hi = V(1)
    /\ Len(data.rows) = 2
    /\ data.rows[1].cells = <<V(0)>>
    /\ result = data

\* the failures of a filter_data spec: the table absent, the column empty or
\* not in the table, or not in the classification sequence matching the kind
SpecFails ==
    /\ call.fn = "filter_data"
    /\ call.round = 1
    /\ Len(call.config) = 1
    /\ \/ ~data.present
       \/ call.config[1].column = NoColumn
       \/ ~HasCol(data, call.config[1].column)
       \/ call.config[1].column \notin Range(MatchingCols(data, call.config[1].type))

CategoricalSelected ==
    /\ df_state.present
    /\ filter_column_select.value # NoColumn
    /\ Split0(filter_column_select.value) \in Range(get_data_cols(df_state).categorical_cols)

\* the step of apply_categorical_filter_btn.click with no value ticked
ApplyEmptySelection ==
    FilterOutputs(add_categorical_filter_to_state(df_state, filter_column_select.value, {}))

\* C8: applying a categorical filter with an empty value set to a categorical
\* column of a loaded table reports the table's total row count as the
\* filtered-row count.
C8_EmptySelectionKeepsCount ==
    [][(CategoricalSelected /\ ApplyEmptySelection)
            => filtered_row_count' = Str(Len(df_state.rows))]_vars

\* ------------------------------------------------------ C9: cleaning result
NoMissingCell(df) ==
    \A r \in DOMAIN df.rows : \A i \in DOMAIN df.rows[r].cells : ~IsNull(df.rows[r].cells[i])

ParsedAndLoaded == loaded.arity # 0 /\ TryRead(file).raised = "none"

\* C9: for every successfully parsed raw table, whatever its pattern of
\* missing cells (columns entirely missing included), the table returned by
\* load_clean_data is present and has no missing cell in any column.
C9_NoMissingCell ==
    ParsedAndLoaded => (loaded.data.present /\ NoMissingCell(loaded.data))

\* a parsed table with a missing cell in every column, one of them a text
\* column, whose cleaned table keeps a row
C9_Witness ==
    /\ ParsedAndLoaded
    /\ \A i \in DOMAIN file.table.cols : NullCount(file.table, i) > 0
    /\ \E i \in DOMAIN file.table.cols : file.table.cols[i].dtype = "object"
    /\ loaded.data.present
    /\ loaded.data.rows # <<>>

\* ------------------------------------------------------- C10: the census
\* C10: while a table is loaded, the session's census is the count of missing
\* cells per column of the raw table of the last upload, as parsed and before
\* imputation and row dropping; no session operation after the upload
\* changes it.
C10_CensusIsRawNullCount ==
    df_state.present => missing_values = isnull_sum(TryRead(file_input).data)

\* a census with a nonzero count, over a cleaned table with no missing cell,
\* after a filter was applied to the table
C10_Witness ==
    /\ df_state.present
    /\ \E i \in DOMAIN missing_values.items : missing_values.items[i].count > 0
    /\ NoMissingCell(df_state)
    /\ df_state.rows # <<>>
    /\ current_filter.isset
    /\ Len(filtered_data_display.rows) < Len(df_state.rows)

\* ------------------------------------------- C11, C12: imputation, dropping
\* the raw table of a load call that parsed
Raw == TryRead(file).data

NumericCol(df, i) == df.cols[i].dtype \in {"int64", "float64", "timedelta64[ns]"}

\* the non-missing cells of column i of the raw table
RawPresent(i) == {r \in DOMAIN Raw.rows : ~IsNull(Raw.rows[r].cells[i])}

\* a raw row is kept iff each of its missing cells is in a numeric column
\* that has a non-missing cell
RowKept(r) ==
    \A i \in DOMAIN Raw.cols :
        IsNull(Raw.rows[r].cells[i]) => (NumericCol(Raw, i) /\ RawPresent(i) # {})

\* the positions of the kept raw rows, in order
KeptRows == SelectSeq([r \in DOMAIN Raw.rows |-> r], RowKept)

RECURSIVE SumOver(_, _)
SumOver(rs, i) ==
    IF rs = {} THEN 0
    ELSE LET r == CHOOSE x \in rs : TRUE
         IN  Raw.rows[r].cells[i][1] + SumOver(rs \ {r}, i)

\* the cell c is the mean of the non-missing raw cells (whole numbers) of column i
IsRawMean(c, i) ==
    /\ c[2] > 0
    /\ c[1] * Cardinality(RawPresent(i)) = c[2] * SumOver(RawPresent(i), i)

C12_RowDropping ==
    ParsedAndLoaded =>
        /\ Len(loaded.data.rows) = Len(KeptRows)
        /\ \A k \in DOMAIN loaded.data.rows :
              /\ loaded.data.rows[k].idx = k - 1
              /\ \A i \in DOMAIN Raw.cols :
                    ~IsNull(Raw.rows[KeptRows[k]].cells[i])
                        => loaded.data.rows[k].cells[i] = Raw.rows[KeptRows[k]].cells[i]

\* the first raw row misses its text and is dropped; the last misses only its
\* number and is kept, re-indexed to 0
C12_Witness ==
    /\ ParsedAndLoaded
    /\ Len(Raw.rows) = MaxRows
    /\ ~RowKept(1)
    /\ KeptRows = <<MaxRows>>
    /\ \E i \in DOMAIN Raw.cols : IsNull(Raw.rows[MaxRows].cells[i])
    /\ Len(loaded.data.rows) = 1
    /\ loaded.data.rows[1].idx = 0

\* ------------------------------------------------ C13, C14: load failures
LoadFailed == loaded.arity # 0 /\ ~loaded.data.present

\* C13: for every file handle load_clean_data returns, and on every failure
\* path it returns exactly the triple (None, a non-empty message, {}).
C13_FailureTriple ==
    LoadFailed =>
        /\ loaded.arity = 3
        /\ loaded.message # ""
        /\ loaded.missing_values = EmptyCensus

\* the load of an absent handle (file is None)
C13_Witness ==
    /\ LoadFailed
    /\ file = NoFile
    /\ loaded.message = MsgNoFile

SupportedName(f) ==
    f.isfile /\ (EndsWith(f.name, ".csv") \/ EndsWith(f.name, ".xls") \/ EndsWith(f.name, ".xlsx"))

\* C14: a file whose extension is not .csv/.xls/.xlsx gets the 'unsupported
\* format' status, and every parse failure of a file with a supported
\* extension, whatever exception the parser raises, gets the one fixed
\* generic status.
C14_StatusByFailureClass ==
    LoadFailed =>
        /\ (file.isfile /\ ~SupportedName(file)) => loaded.message = MsgUnsupported
        /\ SupportedName(file) => loaded.message = MsgNoFile

\* ------------------------------------------------ C15: the classification
\* the underlying kind of a column: numpy's number types (integers, floats,
\* durations), timestamps with or without a time zone, text or a label set
KindOf(dt) ==
    IF dt \in {"int64", "float64", "timedelta64[ns]"} THEN "number"
    ELSE IF dt \in {"datetime64[ns]", "datetime64[ns, UTC]"} THEN "timestamp"
    ELSE IF dt \in {"object", "category"} THEN "text"
    ELSE "other"

\* the column names of a kind, in the table's column order
ColumnsOfKind(df, kind) ==
    LET sel == SelectSeq(df.cols, LAMBDA c : KindOf(c.dtype) = kind)
    IN  [i \in DOMAIN sel |-> sel[i].name]

\* C15: the three sequences get_data_cols returns are pairwise disjoint, hold
\* every column whose kind is number, timestamp or text exactly once and in
\* the table's column order, and hold no column of another kind.
C15_ClassificationPartition ==
    call.fn = "get_data_cols" =>
        /\ result.numeric_cols = ColumnsOfKind(data, "number")
        /\ result.datetime_cols = ColumnsOfKind(data, "timestamp")
        /\ result.categorical_cols = ColumnsOfKind(data, "text")

\* -------------------------------------------- C16: filters and their table
\* C16: after any upload, successful or failed, the active filter is absent
\* and the filtered view and filtered-row count are those of the new table,
\* so that current_filter never names a filter applied to an earlier table.
C16_FilterDiesWithTable ==
    [][Upload =>
        /\ current_filter' = NoFilter
        /\ filtered_data_display' = head(df_state', PreviewRows)
        /\ filtered_row_count' = Str(Len(df_state'.rows))]_vars

\* ------------------------------------------------ C17: filters replace
\* a step of one of the four filter buttons
FilterStep ==
    ApplyNumericFilter \/ ApplyCategoricalFilter \/ ApplyDateFilter \/ ClearFilter

\* the rows the filter cf alone selects from the table df
OnlyFilter(cf, df) == filter_data(df, cf.config, get_data_cols(df))

\* after the step: a filter is active, of one column entry, and the view and
\* the count are those of that filter alone on the session table
ShowsActiveFilter ==
    /\ current_filter'.isset
    /\ Len(current_filter'.config) = 1
    /\ filtered_data_display' = head(OnlyFilter(current_filter', df_state), PreviewRows)
    /\ filtered_row_count' = Str(Len(OnlyFilter(current_filter', df_state).rows))

\* after the step: no filter is active and the view is the whole table
ShowsWholeTable ==
    /\ current_filter' = NoFilter
    /\ filtered_data_display' = head(df_state, PreviewRows)
    /\ filtered_row_count' = Str(Len(df_state.rows))

\* after the step: no filter is active, there is no view and the count is "0"
ShowsNothing ==
    /\ current_filter' = NoFilter
    /\ filtered_data_display' = NoneDF
    /\ filtered_row_count' = Str(0)

Uploaded == upload_status # ""

\* C18: after every upload the session table and the session census both come
\* from the file of that upload alone: the cleaned table and the raw null
\* counts when it parsed, no table and an empty census when it did not,
\* whatever was loaded before; no other action changes either.
C18_UploadReplaces ==
    Uploaded =>
        IF TryRead(file_input).raised = "none"
        THEN /\ df_state = load_clean_data(file_input).data
             /\ df_state.present
             /\ missing_values = isnull_sum(file_input.table)
        ELSE /\ df_state = NoneDF
             /\ missing_values = EmptyCensus

\* a failed upload (unsupported extension) after a table was loaded and
\* filtered: no table, an empty census
C18_Witness ==
    /\ upload_status = MsgUnsupported
    /\ current_filter.isset
    /\ df_state = NoneDF
    /\ missing_values = EmptyCensus

\* ------------------------------------------- C19: requests without a table
\* a describe, preview, statistics or insights request was answered
Answered == report.request # "none"

\* C19: every statistics, insights, describe and preview request made while
\* the session table is absent is answered, and each of its text outputs is
\* the fixed text "No data loaded.".
C19_NoDataSentinel ==
    (Answered /\ ~df_state.present) =>
        /\ ~report.raised
        /\ \A i \in DOMAIN report.texts : report.texts[i] = NoDataText
        /\ \A i \in DOMAIN report.frames : report.frames[i] = NoneDF
        /\ Len(report.texts) =
              IF report.request = "display_data_info" THEN 4
              ELSE IF report.request = "compute_statistics" THEN 3
              ELSE IF report.request = "generate_all_insights" THEN 2
              ELSE 0

\* a statistics request after a failed upload
C19_Witness ==
    /\ ~df_state.present
    /\ upload_status = MsgUnsupported
    /\ report.request = "compute_statistics"
    /\ report.texts = <<NoDataText, NoDataText, NoDataText>>

\* ------------------------------------------------- C20: two-sigma scenario
\* the trends of a column holding exactly the values 10, 10, 10, 10, 100
TwoSigmaScenario ==
    /\ call.fn = "generate_trends_and_anomalies"
    /\ Col(data, ColAge) = <<V(10), V(10), V(10), V(10), V(100)>>

\* C20: for a numeric column holding exactly the values 10, 10, 10, 10, 100
\* generate_trends_and_anomalies reports exactly one anomaly, the value 100.
C20_TwoSigmaScenario ==
    TwoSigmaScenario =>
        /\ result.text.body.numeric[1].anomalies = 1
        /\ result.text.body.numeric[1].range = <<V(100), V(100)>>

\* C20 as amended: for that column generate_trends_and_anomalies reports the
\* mean 28, the sample variance 1620 (std 40.25), no anomaly and no anomaly
\* range: 100 is not above 28 + 2 * 40.25.
C20_TwoSigmaNoAnomaly ==
    TwoSigmaScenario =>
        /\ ~result.raised
        /\ result.text.body.numeric[1].mean = V(28)
        /\ result.text.body.numeric[1].variance = V(1620)
        /\ result.text.body.numeric[1].anomalies = 0
        /\ result.text.body.numeric[1].range = <<>>

C20_Witness ==
    /\ TwoSigmaScenario
    /\ Len(data.rows) = 5
    /\ result.text.body.numeric[1].column = ColAge

\* ----------------------------------------------- C21: filter actions raise
\* C21: for every loaded table, every selected column and every parameter
\* value the user can supply (a reversed range, an empty date text, date text
\* that is not a date) the filter handlers return a (filter, preview, count)
\* value; the numeric and categorical handlers compare numbers and test
\* membership, which never raises, so the date handler is the one to check.
C21_NoFilterActionRaises ==
    df_state.present =>
        \A start_date \in SessionDates, end_date \in SessionDates :
            ~add_date_filter_to_state_raises(df_state, filter_column_select.value,
                                             start_date, end_date)

\* ------------------------------------------------------- session: export
\* export_data is wired to the Export Data button but is not part of
\* data_processor.py; it is modelled by what the button's wiring and the
\* description give: the frame it receives is written as delimited text, a
\* header line of the column names and one line of cells per row (the index
\* is not written); without a frame no file is produced.
NoExport == [written |-> FALSE, header |-> <<>>, lines |-> <<>>]

export_data(df) ==
    IF ~df.present
    THEN NoExport
    ELSE [written |-> TRUE,
          header |-> [i \in DOMAIN df.cols |-> df.cols[i].name],
          lines |-> [i \in DOMAIN df.rows |-> df.rows[i].cells]]

\* tables around the size of the preview: n rows of one number column, the
\* first k of them 0 and the others 1
ExportSizes == (PreviewRows - 1) .. (PreviewRows + MaxRows)
ExportSplits(n) == {0, 1, PreviewRows, n}

LongTable(n, k) ==
    [present |-> TRUE,
     cols |-> <<[name |-> ColAge, dtype |-> "float64"]>>,
     rows |-> [i \in 1..n |-> [cells |-> <<IF i <= k THEN V(0) ELSE V(1)>>,
                               idx |-> i - 1]]]

\* the session as the upload of file f leaves it, before any other action
UploadedSession(f) ==
    LET out == load_data(f)
        opts == update_filter_options(out.data)
    IN  /\ FilterIdle
        /\ LoadIdle
        /\ report = NoReport
        /\ current_filter = NoFilter
        /\ file_input = f
        /\ df_state = out.data
        /\ upload_status = out.string
        /\ missing_values = out.missing_values
        /\ filter_column_select = [value |-> NoColumn, choices |-> opts.choices]
        /\ total_row_count = opts.total
        /\ filtered_row_count = opts.filtered
        /\ filtered_data_display = opts.display

\* the session as an upload of a long table leaves it
InitExport ==
    \E n \in ExportSizes :
        \E k \in ExportSplits(n) :
            UploadedSession(FileOf(<<"data", ".csv">>, "table", LongTable(n, k), ""))

\* export_data_btn.click: the input is the Filtered Data Display component
ExportData ==
    /\ report' = [raised |-> FALSE, request |-> "export", texts |-> <<>>,
                  frames |-> <<export_data(filtered_data_display)>>]
    /\ UNCHANGED requestRest

NextExport ==
    \/ SelectColumn
    \/ ApplyNumericFilter
    \/ ClearFilter
    \/ ExportData

SpecExport == InitExport /\ [][NextExport]_vars

\* ------------------------------------------- C22: export of the filtered table
\* C22: once a filter has been applied, the exported file holds every row
\* of the filtered table, i.e. the full result of the active filter on the
\* session table, as many lines as the reported filtered-row count.
C22_ExportIsFilteredTable ==
    [][(ExportData /\ current_filter.isset) =>
        LET whole == filter_data(df_state, current_filter.config, get_data_cols(df_state))
            file0 == report'.frames[1]
        IN  /\ file0.written
            /\ file0.lines = [i \in DOMAIN whole.rows |-> whole.rows[i].cells]
            /\ Str(Len(file0.lines)) = filtered_row_count]_vars

\* --------------------------------------------- filter calls: several entries
\* tables of two columns, a number column and a text or timestamp column
ComposeCells == {V(0), V(1)}
ComposeBounds == {None} \cup ComposeCells
ComposeSchemas ==
    {<<[name |-> ColAge, dtype |-> "int64"], [name |-> ColCity, dtype |-> "object"]>>,
     <<[name |-> ColAge, dtype |-> "float64"], [name |-> ColDate, dtype |-> "datetime64[ns]"]>>}

ComposeTables ==
    UNION {SessionTables(cols, ComposeCells \X ComposeCells, k) :
                cols \in ComposeSchemas, k \in 0..MaxRows}

\* the entries a mapping can hold for a column of the table
ComposeEntries(column) ==
    IF column = ColAge
    THEN {FilterEntry(column, "numeric", lo, hi, {}) : lo \in ComposeBounds, hi \in ComposeBounds}
    ELSE IF column = ColCity
    THEN {FilterEntry(column, "categorical", None, None, vs) : vs \in SUBSET ComposeCells}
    ELSE {FilterEntry(column, "date", lo, hi, {}) : lo \in ComposeBounds, hi \in ComposeBounds}

InitCompose ==
    /\ data \in ComposeTables
    /\ call = NoCall
    /\ result = NoneDF
    /\ LoadIdle
    /\ SessionIdle

\* filter_data with a mapping of both columns, in either order of insertion
CallFilterDataPair ==
    \E e1 \in ComposeEntries(data.cols[1].name), e2 \in ComposeEntries(data.cols[2].name) :
        \E config \in {<<e1, e2>>, <<e2, e1>>} :
            Call([config |-> config, fn |-> "filter_data", round |-> 1])

NextCompose == CallFilterDataPair

SpecCompose == InitCompose /\ [][NextCompose]_vars

\* ------------------------------------------------ C23: AND-composition
\* every entry of the mapping is a valid spec of a column of its own
ValidMapping(df, config) ==
    /\ df.present
    /\ \A i \in DOMAIN config : ValidSpec(df, <<config[i]>>)
    /\ \A i, j \in DOMAIN config : config[i].column = config[j].column => i = j

\* the row satisfies the predicate of the entry: an inclusive range with an
\* absent bound unbounded on its side, or membership in a non-empty value set
Satisfies(df, r, e) ==
    LET v == r.cells[ColIndex(df, e.column)]
    IN  IF e.type = "categorical"
        THEN e.values = {} \/ v \in e.values
        ELSE InRange(v, e.lo, e.hi)

Reversed(config) == [i \in DOMAIN config |-> config[Len(config) + 1 - i]]

\* C23: for a mapping of several columns to valid specs filter_data returns
\* exactly the rows that satisfy the predicate of every entry, and the result
\* is the same when the entries are taken in the other order.
C23_AndComposition ==
    (call.fn = "filter_data" /\ call.round = 1 /\ Len(call.config) > 1
        /\ ValidMapping(data, call.config))
        => /\ result.rows =
                SelectSeq(data.rows,
                          LAMBDA r : \A i \in DOMAIN call.config :
                                        Satisfies(data, r, call.config[i]))
           /\ result = filter_data(data, Reversed(call.config), get_data_cols(data))

\* ------------------------------------- session: filters and requests together
\* an uploaded session in which the user filters and asks for reports, in any
\* order, without uploading again
NextReadOnly ==
    \/ SelectColumn
    \/ ApplyNumericFilter
    \/ ApplyCategoricalFilter
    \/ ApplyDateFilter
    \/ ClearFilter
    \/ DisplayDataInfo
    \/ PreviewData
    \/ ComputeStatistics
    \/ GenerateInsights

SpecReadOnly == InitRequests /\ [][NextReadOnly]_vars

\* ------------------------------------------------ C24: read-only requests
\* C24: applying a filter, clearing the filter, describing, previewing,
\* computing statistics and generating insights leave the session table (its
\* columns, rows and cells) and the session census as they were; of all
\* actions only an upload writes them (every step of a session without a
\* further upload is one of these actions).
C24_ReadOnlyRequests ==
    [][df_state' = df_state /\ missing_values' = missing_values]_vars

\* a filter that dropped a row is active and statistics were reported, and the
\* session table and census are still those the upload produced
C24_Witness ==
    /\ df_state.present
    /\ current_filter.isset
    /\ Len(filtered_data_display.rows) < Len(df_state.rows)
    /\ report.request = "compute_statistics"
    /\ df_state = LoadData[file_input].data
    /\ missing_values = LoadData[file_input].missing_values
    /\ Len(df_state.rows) = MaxRows

\* ------------------------------------------------ C25: degenerate columns
\* the column analysed has one value in all its rows, or a single row
Degenerate(df) ==
    /\ df.present
    /\ \/ Len(df.rows) = 1
       \/ \A i, j \in DOMAIN df.rows : df.rows[i].cells = df.rows[j].cells

\* C25: for a numeric column whose values are all equal, and for a table of
\* a single row, generate_trends_and_anomalies reports 0 anomalies for the
\* column and gives no anomaly range.
C25_DegenerateNoAnomalies ==
    (call.fn = "generate_trends_and_anomalies" /\ Degenerate(data)) =>
        /\ ~result.raised
        /\ Len(result.text.body.numeric) = 1
        /\ \A i \in DOMAIN result.text.body.numeric :
              /\ result.text.body.numeric[i].anomalies = 0
              /\ result.text.body.numeric[i].range = <<>>

\* a column of the largest size, all its values 100: variance 0, no anomaly
C25_Witness ==
    /\ call.fn = "generate_trends_and_anomalies"
    /\ Len(data.rows) = AnomalyRows
    /\ \A i \in DOMAIN data.rows : data.rows[i].cells = <<V(100)>>
    /\ result.text.body.numeric[1].variance = Ratio(0, 1)
    /\ result.text.body.numeric[1].anomalies = 0
    /\ result.text.body.numeric[1].range = <<>>

\* ------------------------------------------------ C26: the three classifiers
\* C26: for a column of any kind the type check of the per-kind filter, the
\* label update_filter_options gives the column and the sequence in which
\* get_data_cols places it name the same class: numeric_filter accepts the
\* column and its label is Numeric iff it is in numeric_cols, and likewise
\* for categorical_filter / Categorical / categorical_cols and for
\* date_filter / Datetime / datetime_cols.
C26_ClassifiersAgree ==
    call.fn = "get_data_cols" =>
        \A i \in DOMAIN data.cols :
            LET c == data.cols[i]
                agree(fn, label, cols) ==
                    /\ AcceptsDtype(fn, c.dtype) <=> c.name \in Range(cols)
                    /\ TypeLabel(c.dtype) = label <=> c.name \in Range(cols)
            IN  /\ agree("numeric_filter", "Numeric", result.numeric_cols)
                /\ agree("categorical_filter", "Categorical", result.categorical_cols)
                /\ agree("date_filter", "Datetime", result.datetime_cols)

\* ------------------------------------------- session: names with a separator
\* column headers, one of them holding the separator text " - "
ColAgeUsd == <<"age", " - ", "usd">>
LabelNames == {ColAge, ColCity, ColAgeUsd}

\* tables of two number columns with headers drawn from LabelNames
LabelSchemas ==
    {<<[name |-> ns[1], dtype |-> "float64"], [name |-> ns[2], dtype |-> "float64"]>> :
        ns \in {p \in LabelNames \X LabelNames : p[1] # p[2]}}

LabelTables ==
    UNION {SessionTables(cols, ComposeCells \X ComposeCells, k) :
                cols \in LabelSchemas, k \in 0..MaxRows}

InitLabel ==
    \E t \in LabelTables : UploadedSession(FileOf(<<"data", ".csv">>, "table", t, ""))

NextLabel ==
    \/ SelectColumn
    \/ ApplyNumericFilter
    \/ ClearFilter

SpecLabel == InitLabel /\ [][NextLabel]_vars

\* ------------------------------------------------ C27: label round trip
\* C27: the dropdown label of a column of the loaded table, whatever its
\* name, gives the column's name back when the filter handlers split it, so
\* the filter the user applies from the dropdown is a filter on the column
\* that was selected.
C27_LabelRoundTrip ==
    /\ \A i \in DOMAIN df_state.cols :
            Split0(ChoiceLabel(df_state.cols[i])) = df_state.cols[i].name
    /\ (current_filter.isset /\ filter_column_select.value # NoColumn) =>
            \E i \in DOMAIN df_state.cols :
                /\ filter_column_select.value = ChoiceLabel(df_state.cols[i])
                /\ current_filter.config[1].column = df_state.cols[i].name

\* ------------------------------------------------ C28: census and table
\* the keys of the census, in order
CensusKeys(census) == [i \in DOMAIN census.items |-> census.items[i].column]

\* C28: in every reachable session state with a session table the census is
\* a mapping, never None, whose keys are the column names of the table, and
\* compute_statistics on that table and census does not fail on the census.
C28_CensusMatchesTable ==
    df_state.present =>
        /\ missing_values.isdict
        /\ CensusKeys(missing_values) = Columns(df_state)
        /\ ~compute_statistics(df_state, missing_values).raised

\* a loaded table that lost a row to cleaning, with its census of two columns
C28_Witness ==
    /\ df_state.present
    /\ upload_status = MsgLoaded
    /\ Len(df_state.cols) = 2
    /\ Len(missing_values.items) = 2
    /\ missing_values.items[2].count > 0
    /\ Len(df_state.rows) < Len(file_input.table.rows)
    /\ filter_column_select.value # NoColumn

\* ------------------------------------------------ C29: the result is a triple
\* C29: whatever the file, load_clean_data returns three values (the table
\* or None, the message, the census): the branch that returns the pair
\* (data, "Failed to load and clean data.") is never taken, and load_data's
\* unpacking into three names succeeds.
C29_AlwaysTriple ==
    loaded.arity # 0 =>
        /\ loaded.arity = 3
        /\ loaded.message # MsgFailed
        /\ ~load_data(file).raised

\* a workbook whose content cannot be read: the except branch gives a triple
C29_Witness ==
    /\ loaded.arity = 3
    /\ file.isfile
    /\ EndsWith(file.name, ".xlsx")
    /\ file.parse = "BadZipFile"
    /\ ~loaded.data.present
    /\ loaded.message = MsgNoFile
    /\ ~load_data(file).raised

\* ------------------------------------------- session: a CSV with date text
\* pd.read_csv is called without parse_dates: a column of date text is read
\* as text (dtype object)
CsvDateSchema ==
    <<[name |-> ColAge, dtype |-> "float64"], [name |-> ColDate, dtype |-> "object"]>>

CsvDateTables ==
    UNION {SessionTables(CsvDateSchema, ComposeCells \X ComposeCells, k) : k \in 0..MaxRows}

InitCsvDates ==
    \E t \in CsvDateTables : UploadedSession(FileOf(<<"data", ".csv">>, "table", t, ""))

NextCsvDates ==
    \/ SelectColumn
    \/ ClearSelection
    \/ ApplyDateFilter
    \/ ApplyCategoricalFilter
    \/ ClearFilter

SpecCsvDates == InitCsvDates /\ [][NextCsvDates]_vars

\* ------------------------------------------------ C30: dates from a CSV
\* C30: the date column of a table loaded from a .csv file is classified
\* Datetime by get_data_cols, and add_date_filter_to_state on that column
\* applies the range: it does not return the rejected result (None, None, "0").
C30_CsvDateFilterApplies ==
    (df_state.present /\ EndsWith(file_input.name, ".csv") /\ HasCol(df_state, ColDate)) =>
        LET c == df_state.cols[ColIndex(df_state, ColDate)]
        IN  /\ ColDate \in Range(get_data_cols(df_state).datetime_cols)
            /\ \A start_date \in ComposeBounds, end_date \in ComposeBounds :
                  add_date_filter_to_state(df_state, ChoiceLabel(c), start_date, end_date)
                      # Rejected

====
